---- MODULE Spec2Model ----
(***************************************************************************)
(* Near-Earth-object pipeline: extract.py (load_neos, load_approaches),    *)
(* models.py (NearEarthObject, CloseApproach), the designation linker and  *)
(* write.py (write_to_csv, write_to_json).                                 *)
(*                                                                         *)
(* Representation of Python values:                                        *)
(*   str            a TLA+ string                                          *)
(*   Optional[str]  a sequence of length <= 1 (<<>> is None)               *)
(*   float          [k |-> "fin" | "nan" | "inf" | "-inf", milli |-> Int]  *)
(*                  (milli = thousandths of the value when k = "fin")      *)
(*   object handle  index into the list that owns the object, 0 is None    *)
(*   dict           a function from key strings to values                  *)
(*   exception      the name of its class, "none" when nothing was raised  *)
(***************************************************************************)
EXTENDS Integers, Sequences, FiniteSets, TLC

VARIABLES pc, neoCsv, cadJson, neos, approaches, order, err, results, outFile

vars == <<pc, neoCsv, cadJson, neos, approaches, order, err, results, outFile>>

(* ---------------------------- bounds ----------------------------------- *)
MaxNeoRows == 2
MaxApproachRows == 2

(* ---------------------------- helpers ---------------------------------- *)
None == <<>>

Range(s) == {s[i] : i \in 1..Len(s)}

SeqsUpTo(S, n) == UNION {[1..k -> S] : k \in 0..n}

Perms(n) == {p \in [1..n -> 1..n] : \A i, j \in 1..n : p[i] = p[j] => i = j}

(* ---------------------------- float ------------------------------------ *)
Fin(m) == [k |-> "fin", milli |-> m]
NaN == [k |-> "nan", milli |-> 0]
PosInf == [k |-> "inf", milli |-> 0]
NegInf == [k |-> "-inf", milli |-> 0]

\* The decimal texts float() accepts among the raw field values used here,
\* with the value in thousandths.
DecimalTexts ==
  ("0" :> 0) @@ ("0.0" :> 0) @@ ("16.84" :> 16840) @@
  ("0.321" :> 321) @@ ("0.05" :> 50) @@ ("5.58" :> 5580) @@ ("12.1" :> 12100) @@
  ("-1.5" :> -1500)

\* float(text): a decimal literal gives its value, the special literals give
\* the IEEE specials, everything else (the empty string and blanks included)
\* raises ValueError.
PyFloat(text) ==
  IF text \in DOMAIN DecimalTexts THEN [raised |-> "none", val |-> Fin(DecimalTexts[text])]
  ELSE IF text = "nan" THEN [raised |-> "none", val |-> NaN]
  ELSE IF text = "inf" THEN [raised |-> "none", val |-> PosInf]
  ELSE IF text = "-inf" THEN [raised |-> "none", val |-> NegInf]
  ELSE [raised |-> "ValueError", val |-> NaN]

\* float.__repr__ / str(float): the shortest text that parses back.
FloatRepr(x) ==
  CASE x.k = "nan" -> "nan"
    [] x.k = "inf" -> "inf"
    [] x.k = "-inf" -> "-inf"
    [] x.k = "fin" /\ x.milli = 0 -> "0.0"
    [] x.k = "fin" /\ x.milli = 16840 -> "16.84"
    [] x.k = "fin" /\ x.milli = 321 -> "0.321"
    [] x.k = "fin" /\ x.milli = 50 -> "0.05"
    [] x.k = "fin" /\ x.milli = 5580 -> "5.58"
    [] x.k = "fin" /\ x.milli = 12100 -> "12.1"
    [] x.k = "fin" /\ x.milli = -1500 -> "-1.5"

\* x == y on floats: NaN compares unequal to everything, itself included.
FloatEq(x, y) == x.k # "nan" /\ y.k # "nan" /\ x = y

IsFinite(x) == x.k = "fin"

(* ---------------------------- models.py -------------------------------- *)
\* Variant of NearEarthObject.__init__ whose approaches list does not start
\* empty.
NearEarthObjectInit_PresetApproaches(designation, name, diameter, hazardous) ==
  [raised |-> IF diameter # "" THEN PyFloat(diameter).raised ELSE "none",
   obj |-> [designation |-> designation,
            name |-> IF name # "" THEN <<name>> ELSE None,
            diameter |-> IF diameter # "" THEN PyFloat(diameter).val ELSE NaN,
            hazardous |-> (hazardous = "Y"),
            approaches |-> <<1>>]]

\* Variant of NearEarthObject.__init__ that tests the converted number
\* (float(diameter) or nan) rather than the text, so that zero reads as unknown.
NearEarthObjectInit_FalsyZero(designation, name, diameter, hazardous) ==
  [raised |-> IF diameter # "" THEN PyFloat(diameter).raised ELSE "none",
   obj |-> [designation |-> designation,
            name |-> IF name # "" THEN <<name>> ELSE None,
            diameter |-> IF diameter # "" /\ PyFloat(diameter).val # Fin(0)
                         THEN PyFloat(diameter).val ELSE NaN,
            hazardous |-> (hazardous = "Y"),
            approaches |-> <<>>]]

\* Variant of NearEarthObject.__init__ that compares the flag ignoring case.
NearEarthObjectInit_AnyCase(designation, name, diameter, hazardous) ==
  [raised |-> IF diameter # "" THEN PyFloat(diameter).raised ELSE "none",
   obj |-> [designation |-> designation,
            name |-> IF name # "" THEN <<name>> ELSE None,
            diameter |-> IF diameter # "" THEN PyFloat(diameter).val ELSE NaN,
            hazardous |-> (hazardous \in {"Y", "y"}),
            approaches |-> <<>>]]

\* NearEarthObject.__init__; "raised" is the exception leaving the constructor.
NearEarthObjectInit(designation, name, diameter, hazardous) ==
  [raised |-> IF diameter # "" THEN PyFloat(diameter).raised ELSE "none",
   obj |-> [designation |-> designation,
            name |-> IF name # "" THEN <<name>> ELSE None,
            diameter |-> IF diameter # "" THEN PyFloat(diameter).val ELSE NaN,
            hazardous |-> (hazardous = "Y"),
            approaches |-> <<>>]]

\* str(x) of an Optional[str] inside an f-string.
PyStrOpt(x) == IF x = None THEN "None" ELSE x[1]

\* NearEarthObject.fullname: the pieces of f'{designation} ({name})'.
FullnameParts(neo) == <<neo.designation, " (", PyStrOpt(neo.name), ")">>

fullname(neo) ==
  FullnameParts(neo)[1] \o FullnameParts(neo)[2] \o FullnameParts(neo)[3] \o FullnameParts(neo)[4]

\* NearEarthObject.serialize
NeoSerialize(neo) ==
  [designation |-> neo.designation,
   name |-> IF neo.name # None /\ neo.name[1] # "" THEN neo.name[1] ELSE "",
   diameter_km |-> neo.diameter,
   potentially_hazardous |-> neo.hazardous]

(* ---------------------------- extract.py: load_neos -------------------- *)
NeoRequired == <<"pdes", "name", "diameter", "pha">>

\* Source rows of the NEO catalogue (one value per catalogue column).
NeoRows ==
  { [pdes |-> "433", name |-> "Eros",   diameter |-> "16.84", pha |-> "N", orbit |-> "AMO"],
    [pdes |-> "433", name |-> "",       diameter |-> "",      pha |-> "Y", orbit |-> "AMO"],
    [pdes |-> "887", name |-> "Alinda", diameter |-> "0",     pha |-> "y", orbit |-> "AMO"],
    [pdes |-> "887", name |-> "",       diameter |-> "nan",   pha |-> "",  orbit |-> "APO"],
    [pdes |-> "719", name |-> "Albert", diameter |-> "abc",   pha |-> "N", orbit |-> "AMO"],
    [pdes |-> "887", name |-> "",       diameter |-> " ",     pha |-> "Y", orbit |-> "APO"] }

\* Headers of the catalogue file: the full one (columns in another order than
\* the constructor's, with an extra column) and one per missing column.
NeoHeaders ==
  { <<"pdes", "orbit", "name", "pha", "diameter">>,
    <<"orbit", "name", "pha", "diameter">>,
    <<"pdes", "orbit", "pha", "diameter">>,
    <<"pdes", "orbit", "name", "pha">>,
    <<"pdes", "orbit", "name", "diameter">> }

NeoFiles == [header : NeoHeaders, rows : SeqsUpTo(NeoRows, MaxNeoRows)]

\* csv.DictReader: each data row becomes a dict keyed by the header's columns.
DictReaderRow(header, row) == [c \in Range(header) |-> row[c]]

\* The call NearEarthObject(row['pdes'], row['name'], row['diameter'], row['pha']):
\* the subscripts are evaluated first, a missing key raises KeyError.
LoadNeoRow(d) ==
  IF \E i \in 1..Len(NeoRequired) : NeoRequired[i] \notin DOMAIN d
  THEN [raised |-> "KeyError", obj |-> <<>>]
  ELSE NearEarthObjectInit(d["pdes"], d["name"], d["diameter"], d["pha"])

RECURSIVE LoadNeosFrom(_, _, _)
LoadNeosFrom(file, i, res) ==
  IF i > Len(file.rows) THEN [raised |-> "none", res |-> res]
  ELSE LET r == LoadNeoRow(DictReaderRow(file.header, file.rows[i]))
       IN IF r.raised # "none" THEN [raised |-> r.raised, res |-> <<>>]
          ELSE LoadNeosFrom(file, i + 1, Append(res, r.obj))

\* load_neos(neo_csv_path)
load_neos(file) == LoadNeosFrom(file, 1, <<>>)

(* ---------------------------- helpers.py ------------------------------- *)
\* The calendar dates the date helper understands, as structured UTC times.
CalendarDates ==
  ("1900-Jan-01 00:00" :> [y |-> 1900, mo |-> 1, d |-> 1, h |-> 0, mi |-> 0]) @@
  ("2020-Feb-29 12:30" :> [y |-> 2020, mo |-> 2, d |-> 29, h |-> 12, mi |-> 30])

NoTime == [y |-> 0, mo |-> 0, d |-> 0, h |-> 0, mi |-> 0]

\* cd_to_datetime(calendar_date): string -> structured timestamp, ValueError
\* when the string is not a calendar date.
cd_to_datetime(calendar_date) ==
  IF calendar_date \in DOMAIN CalendarDates
  THEN [raised |-> "none", val |-> CalendarDates[calendar_date]]
  ELSE [raised |-> "ValueError", val |-> NoTime]

\* datetime_to_str(dt): structured timestamp -> canonical display string.
datetime_to_str(dt) ==
  CASE dt = CalendarDates["1900-Jan-01 00:00"] -> "1900-01-01 00:00"
    [] dt = CalendarDates["2020-Feb-29 12:30"] -> "2020-02-29 12:30"

(* ---------------------------- models.py: CloseApproach ----------------- *)
FirstRaised(rs) ==
  IF \E i \in 1..Len(rs) : rs[i] # "none"
  THEN rs[CHOOSE i \in 1..Len(rs) : rs[i] # "none" /\ \A j \in 1..(i - 1) : rs[j] = "none"]
  ELSE "none"

\* CloseApproach.__init__; neo is the handle of the linked NEO, 0 for None.
CloseApproachInit(designation, calendar_date, distance, velocity) ==
  [raised |-> FirstRaised(<<cd_to_datetime(calendar_date).raised,
                            PyFloat(distance).raised,
                            PyFloat(velocity).raised>>),
   obj |-> [designation |-> designation,
            time |-> cd_to_datetime(calendar_date).val,
            distance |-> PyFloat(distance).val,
            velocity |-> PyFloat(velocity).val,
            neo |-> 0]]

\* CloseApproach.time_str
time_str(approach) == datetime_to_str(approach.time)

\* CloseApproach.serialize
ApproachSerialize(approach) ==
  [datetime_utc |-> time_str(approach),
   distance_au |-> approach.distance,
   velocity_km_s |-> approach.velocity,
   designation |-> approach.designation]

(* ---------------------------- extract.py: load_approaches -------------- *)
required_fields == <<"des", "cd", "dist", "v_rel">>

\* Source rows of the close-approach document (one value per field name).
ApproachRows ==
  { [des |-> "433",    cd |-> "1900-Jan-01 00:00", dist |-> "0.321", v_rel |-> "5.58", orbit_id |-> "659"],
    [des |-> "887",    cd |-> "2020-Feb-29 12:30", dist |-> "-1.5",  v_rel |-> "12.1", orbit_id |-> "12"],
    [des |-> "999999", cd |-> "1900-Jan-01 00:00", dist |-> "0.0",   v_rel |-> "5.58", orbit_id |-> "1"],
    [des |-> "433",    cd |-> "2020-Feb-29 12:30", dist |-> "nan",   v_rel |-> "inf",  orbit_id |-> "659"],
    [des |-> "433",    cd |-> "1900-Jan-01 00:00", dist |-> "abc",   v_rel |-> "5.58", orbit_id |-> "659"],
    [des |-> "887",    cd |-> "2020-Feb-29 12:30", dist |-> "0.05",  v_rel |-> "",     orbit_id |-> "12"],
    [des |-> "887",    cd |-> "yesterday",         dist |-> "0.05",  v_rel |-> "12.1", orbit_id |-> "12"] }

\* 'fields' arrays of the document: a complete one (positions other than the
\* constructor's, with an extra column) and one per missing required field.
CadFieldLists ==
  { <<"v_rel", "orbit_id", "dist", "des", "cd">>,
    <<"orbit_id", "cd", "dist", "v_rel">>,
    <<"des", "orbit_id", "dist", "v_rel">>,
    <<"des", "orbit_id", "cd", "v_rel">>,
    <<"des", "orbit_id", "cd", "dist">> }

\* A data row is an array of values, positional per 'fields'.
RowArray(fields, row) == [i \in 1..Len(fields) |-> row[fields[i]]]

CadFiles ==
  { [fields |-> f, data |-> [i \in 1..Len(rows) |-> RowArray(f, rows[i])]] :
      f \in CadFieldLists, rows \in SeqsUpTo(ApproachRows, MaxApproachRows) }

\* list.index(x): position of the first occurrence, 0 here when it raises ValueError.
ListIndex(list, x) ==
  IF \E i \in 1..Len(list) : list[i] = x
  THEN CHOOSE i \in 1..Len(list) : list[i] = x /\ \A j \in 1..(i - 1) : list[j] # x
  ELSE 0

RECURSIVE LoadApproachesFrom(_, _, _, _)
LoadApproachesFrom(data, indexes, i, res) ==
  IF i > Len(data) THEN [raised |-> "none", res |-> res]
  ELSE LET t == data[i]
           r == CloseApproachInit(t[indexes[1]], t[indexes[2]], t[indexes[3]], t[indexes[4]])
       IN IF r.raised # "none" THEN [raised |-> r.raised, res |-> <<>>]
          ELSE LoadApproachesFrom(data, indexes, i + 1, Append(res, r.obj))

\* load_approaches(cad_json_path)
load_approaches(file) ==
  LET indexes == [k \in 1..Len(required_fields) |-> ListIndex(file.fields, required_fields[k])]
  IN IF \E k \in 1..Len(required_fields) : indexes[k] = 0
     THEN [raised |-> "ValueError", res |-> <<>>]
     ELSE LoadApproachesFrom(file.data, indexes, 1, <<>>)

(* ---------------------------- linker ----------------------------------- *)
\* The designation -> NEO mapping built from the NEOs in the order they are
\* fed: a later NEO with the same designation replaces the earlier one.
NeoByDesignation(ns, ord) ==
  [d \in {ns[i].designation : i \in 1..Len(ns)} |->
     LET last == CHOOSE i \in 1..Len(ord) :
                   /\ ns[ord[i]].designation = d
                   /\ \A j \in (i + 1)..Len(ord) : ns[ord[j]].designation # d
     IN ord[last]]

\* The linking pass: every close approach whose designation is in the mapping
\* gets that NEO as its neo and is appended to that NEO's approaches.
Link(ns, as, ord) ==
  LET map == NeoByDesignation(ns, ord)
      target(a) == IF as[a].designation \in DOMAIN map THEN map[as[a].designation] ELSE 0
  IN [neos |-> [n \in 1..Len(ns) |->
                  [ns[n] EXCEPT !.approaches =
                     @ \o SelectSeq([a \in 1..Len(as) |-> a], LAMBDA a : target(a) = n)]],
      approaches |-> [a \in 1..Len(as) |->
                  IF target(a) # 0 THEN [as[a] EXCEPT !.neo = target(a)] ELSE as[a]]]

(* ---------------------------- write.py --------------------------------- *)
fieldnames ==
  <<"datetime_utc", "distance_au", "velocity_km_s", "designation",
    "name", "diameter_km", "potentially_hazardous">>

\* The Python type of a serialized value is fixed by its key.
FloatKeys == {"distance_au", "velocity_km_s", "diameter_km"}
BoolKeys == {"potentially_hazardous"}

\* dict.update: the entries of e replace or extend those of d.
DictUpdate(d, e) ==
  [k \in (DOMAIN d) \cup (DOMAIN e) |-> IF k \in DOMAIN e THEN e[k] ELSE d[k]]

\* The text the csv writer emits for one value: str(value).
CsvText(key, v) ==
  IF key \in FloatKeys THEN FloatRepr(v)
  ELSE IF key \in BoolKeys THEN (IF v THEN "True" ELSE "False")
  ELSE v

\* The row dict write_to_csv builds for one close approach.
CsvRowDict(approach, ns) ==
  IF approach.neo # 0
  THEN DictUpdate(ApproachSerialize(approach), NeoSerialize(ns[approach.neo]))
  ELSE ApproachSerialize(approach)

\* Variant of the row writer that emits only the values the dict holds
\* (a plain csv.writer over the dict's values).
DictWriterRow_PresentOnly(rowdict) ==
  LET present == SelectSeq(fieldnames, LAMBDA f : f \in DOMAIN rowdict)
  IN [i \in 1..Len(present) |-> CsvText(present[i], rowdict[present[i]])]

\* csv.DictWriter.writerow: one cell per fieldname, a key the dict lacks is
\* written as the fill value '' (restval).
DictWriterRow(rowdict) ==
  [i \in 1..Len(fieldnames) |->
     IF fieldnames[i] \in DOMAIN rowdict
     THEN CsvText(fieldnames[i], rowdict[fieldnames[i]])
     ELSE ""]

\* Variant of write_to_csv that writes the header only together with a first
\* row.
write_to_csv_LazyHeader(res, ns, as) ==
  IF res = <<>> THEN <<>>
  ELSE <<fieldnames>> \o [i \in 1..Len(res) |-> DictWriterRow(CsvRowDict(as[res[i]], ns))]

\* write_to_csv(results, filename): the lines of the file after the call.
write_to_csv(res, ns, as) ==
  <<fieldnames>> \o [i \in 1..Len(res) |-> DictWriterRow(CsvRowDict(as[res[i]], ns))]

\* json encoding of one scalar: str -> string, float -> number literal or the
\* constants NaN / Infinity / -Infinity, bool -> true / false.
JsonScalar(key, v) ==
  IF key \in FloatKeys
  THEN CASE v.k = "fin" -> [t |-> "number", text |-> FloatRepr(v)]
         [] v.k = "nan" -> [t |-> "constant", text |-> "NaN"]
         [] v.k = "inf" -> [t |-> "constant", text |-> "Infinity"]
         [] v.k = "-inf" -> [t |-> "constant", text |-> "-Infinity"]
  ELSE IF key \in BoolKeys THEN [t |-> "literal", text |-> IF v THEN "true" ELSE "false"]
  ELSE [t |-> "string", text |-> v]

JsonObject(d) == [t |-> "object", members |-> [k \in DOMAIN d |-> JsonScalar(k, d[k])]]

\* Variant of the inner serialize that always sets the 'neo' key.
JsonEntry_AlwaysNeo(approach, ns) ==
  IF approach.neo # 0
  THEN ApproachSerialize(approach) @@ ("neo" :> NeoSerialize(ns[approach.neo]))
  ELSE ApproachSerialize(approach) @@ ("neo" :> <<>>)

\* The inner serialize(approach) of write_to_json.
JsonEntry(approach, ns) ==
  IF approach.neo # 0
  THEN ApproachSerialize(approach) @@ ("neo" :> NeoSerialize(ns[approach.neo]))
  ELSE ApproachSerialize(approach)

\* json.dump of one entry: the nested dict becomes a nested object.
JsonEntryObject(d) ==
  [t |-> "object",
   members |-> [k \in DOMAIN d |-> IF k = "neo" THEN JsonObject(d[k]) ELSE JsonScalar(k, d[k])]]

\* write_to_json(results, filename): the document in the file after the call.
write_to_json(res, ns, as) ==
  <<[t |-> "array", items |-> [i \in 1..Len(res) |-> JsonEntryObject(JsonEntry(as[res[i]], ns))]]>>

\* json.load: the Python value of one JSON value.
JsonValue(j) ==
  CASE j.t = "string" -> j.text
    [] j.t = "number" -> PyFloat(j.text).val
    [] j.t = "constant" -> PyFloat(CASE j.text = "NaN" -> "nan"
                                     [] j.text = "Infinity" -> "inf"
                                     [] j.text = "-Infinity" -> "-inf").val
    [] j.t = "literal" -> (j.text = "true")

JsonDict(j) ==
  [k \in DOMAIN j.members |->
     IF j.members[k].t = "object"
     THEN [m \in DOMAIN j.members[k].members |-> JsonValue(j.members[k].members[m])]
     ELSE JsonValue(j.members[k])]

json_load(content) == [i \in 1..Len(content[1].items) |-> JsonDict(content[1].items[i])]

\* The ordered selections of close approaches a query can hand to a writer.
Selections(n) ==
  {s \in SeqsUpTo(1..n, n) : \A i \in 1..Len(s), j \in 1..Len(s) : i < j => s[i] < s[j]}

(* ---------------------------- state machine ---------------------------- *)
NoCsv == [header |-> <<>>, rows |-> <<>>]
NoJson == [fields |-> <<>>, data |-> <<>>]
NoFile == [fmt |-> "none", content |-> <<>>]

\* The destination path before a writer opens it: absent, or an older file.
PriorFiles == {NoFile, [fmt |-> "prior", content |-> <<<<"stale">>, <<"stale">>>>]}

Init ==
  /\ pc = "start"
  /\ neoCsv = NoCsv
  /\ cadJson = NoJson
  /\ neos = <<>>
  /\ approaches = <<>>
  /\ order = <<>>
  /\ err = "none"
  /\ results = <<>>
  /\ outFile \in PriorFiles

LoadNeos ==
  /\ pc = "start"
  /\ \E file \in NeoFiles :
       LET r == load_neos(file)
       IN /\ neoCsv' = file
          /\ err' = r.raised
          /\ neos' = r.res
          /\ pc' = IF r.raised = "none" THEN "neos_loaded" ELSE "failed"
  /\ UNCHANGED <<cadJson, approaches, order, results, outFile>>

LoadApproaches ==
  /\ pc = "neos_loaded"
  /\ \E file \in CadFiles :
       LET r == load_approaches(file)
       IN /\ cadJson' = file
          /\ err' = r.raised
          /\ approaches' = r.res
          /\ pc' = IF r.raised = "none" THEN "approaches_loaded" ELSE "failed"
  /\ UNCHANGED <<neoCsv, neos, order, results, outFile>>

LinkRecords ==
  /\ pc = "approaches_loaded"
  /\ \E ord \in Perms(Len(neos)) :
       /\ order' = ord
       /\ neos' = Link(neos, approaches, ord).neos
       /\ approaches' = Link(neos, approaches, ord).approaches
  /\ pc' = "linked"
  /\ UNCHANGED <<neoCsv, cadJson, err, results, outFile>>

WriteToCsv ==
  /\ pc = "linked"
  /\ \E res \in Selections(Len(approaches)) :
       /\ results' = res
       /\ outFile' = [fmt |-> "csv", content |-> write_to_csv(res, neos, approaches)]
  /\ pc' = "done"
  /\ UNCHANGED <<neoCsv, cadJson, neos, approaches, order, err>>

WriteToJson ==
  /\ pc = "linked"
  /\ \E res \in Selections(Len(approaches)) :
       /\ results' = res
       /\ outFile' = [fmt |-> "json", content |-> write_to_json(res, neos, approaches)]
  /\ pc' = "done"
  /\ UNCHANGED <<neoCsv, cadJson, neos, approaches, order, err>>

Next == LoadNeos \/ LoadApproaches \/ LinkRecords \/ WriteToCsv \/ WriteToJson

Spec == Init /\ [][Next]_vars
(* ---------------------------- observers -------------------------------- *)
Required(list) == Range(list)

\* load_neos has returned normally: neos[i] was built from neoCsv.rows[i].
NeosLoaded ==
  \/ pc \in {"neos_loaded", "approaches_loaded", "linked", "done"}
  \/ pc = "failed" /\ cadJson # NoJson

\* load_neos has been called (and has returned or raised).
NeosCalled == pc # "start"

\* load_approaches has been called (and has returned or raised).
ApproachesCalled == cadJson # NoJson

NeoHeaderComplete == Required(NeoRequired) \subseteq Range(neoCsv.header)

CadFieldsComplete == Required(required_fields) \subseteq Range(cadJson.fields)

\* The raw value of a named field in the i-th data row of the JSON document.
CadRaw(i, field) == cadJson.data[i][ListIndex(cadJson.fields, field)]

SameDesignation(a, n) == approaches[a].designation = neos[n].designation

Matches(n) == SelectSeq([a \in 1..Len(approaches) |-> a], LAMBDA a : SameDesignation(a, n))

\* No NEO fed to the linker after n carries n's designation.
\* The linking pass has run.
Linked == pc \in {"linked", "done"}

FedLast(n) ==
  \A i, j \in 1..Len(order) :
    (order[i] = n /\ j > i) => neos[order[j]].designation # neos[n].designation

(* ---------------------------- C1 --------------------------------------- *)
\* C1 (as stated): after linking, a close approach whose designation some NEO
\* carries references a NEO with that designation, an unmatched close
\* approach keeps neo = None and is in no approaches list, and every NEO's
\* approaches list is exactly its matching close approaches in extraction
\* order - for every list of NEOs and every order it is fed in.
C1_AsStated ==
  Linked =>
    /\ \A a \in 1..Len(approaches) :
         IF \E n \in 1..Len(neos) : SameDesignation(a, n)
         THEN approaches[a].neo # 0 /\ SameDesignation(a, approaches[a].neo)
         ELSE approaches[a].neo = 0 /\ \A n \in 1..Len(neos) : a \notin Range(neos[n].approaches)
    /\ \A n \in 1..Len(neos) : neos[n].approaches = Matches(n)

\* C1 (amended): as above, except that among NEOs sharing a designation only
\* the one fed last to the linker is referenced and owns the matching close
\* approaches; the NEOs it replaces keep an empty approaches list.
C1_Linking ==
  Linked =>
    /\ \A a \in 1..Len(approaches) :
         IF \E n \in 1..Len(neos) : SameDesignation(a, n)
         THEN /\ approaches[a].neo # 0
              /\ SameDesignation(a, approaches[a].neo)
              /\ FedLast(approaches[a].neo)
         ELSE approaches[a].neo = 0 /\ \A n \in 1..Len(neos) : a \notin Range(neos[n].approaches)
    /\ \A n \in 1..Len(neos) :
         neos[n].approaches = IF FedLast(n) THEN Matches(n) ELSE <<>>

C1_Witness ==
  /\ pc = "linked"
  /\ order = <<2, 1>>
  /\ neos[1].designation # neos[2].designation
  /\ \E a, b \in 1..Len(approaches) : approaches[a].neo = 1 /\ approaches[b].neo = 0

(* ---------------------------- C2 --------------------------------------- *)
CsvRowOf(i) == outFile.content[i + 1]

\* C2 (as stated): write_to_csv emits the header and one 7-column row per
\* close approach; a close approach without NEO has the defaults
\* (empty name, nan diameter, False flag) in the NEO columns.
C2_AsStated ==
  outFile.fmt = "csv" =>
    /\ Len(outFile.content) = Len(results) + 1
    /\ outFile.content[1] = fieldnames
    /\ \A i \in 1..Len(results) :
         /\ Len(CsvRowOf(i)) = 7
         /\ approaches[results[i]].neo = 0 =>
              CsvRowOf(i)[5] = "" /\ CsvRowOf(i)[6] = "nan" /\ CsvRowOf(i)[7] = "False"

\* C2 (amended): write_to_csv emits the header and one 7-column row per
\* close approach, in order; the first four cells are the approach's time
\* string, distance, velocity and designation; the last three are the linked
\* NEO's name ('' when absent), diameter and flag, and are all empty when
\* the close approach has no linked NEO.
C2_CsvRows ==
  outFile.fmt = "csv" =>
    /\ Len(outFile.content) = Len(results) + 1
    /\ outFile.content[1] = fieldnames
    /\ \A i \in 1..Len(results) :
         LET a == approaches[results[i]]
             row == CsvRowOf(i)
         IN /\ Len(row) = 7
            /\ row[1] = time_str(a)
            /\ row[2] = FloatRepr(a.distance)
            /\ row[3] = FloatRepr(a.velocity)
            /\ row[4] = a.designation
            /\ IF a.neo = 0
               THEN row[5] = "" /\ row[6] = "" /\ row[7] = ""
               ELSE /\ row[5] = (IF neos[a.neo].name = None THEN "" ELSE neos[a.neo].name[1])
                    /\ row[6] = FloatRepr(neos[a.neo].diameter)
                    /\ row[7] = (IF neos[a.neo].hazardous THEN "True" ELSE "False")

C2_Witness ==
  /\ outFile.fmt = "csv"
  /\ Len(results) = 2
  /\ approaches[results[1]].neo = 0
  /\ approaches[results[2]].neo # 0

(* ---------------------------- C3 --------------------------------------- *)
ApproachKeys == {"datetime_utc", "distance_au", "velocity_km_s", "designation"}
NeoKeys == {"designation", "name", "diameter_km", "potentially_hazardous"}

JsonItems == outFile.content[1].items

\* C3: write_to_json emits one entry per close approach with the four
\* approach keys; the entry has a 'neo' key iff the close approach is linked,
\* and the sub-record then has exactly the four NEO keys, name being '' when
\* the NEO has no name.
C3_JsonEntries ==
  outFile.fmt = "json" =>
    /\ Len(outFile.content) = 1
    /\ outFile.content[1].t = "array"
    /\ Len(JsonItems) = Len(results)
    /\ \A i \in 1..Len(results) :
         LET a == approaches[results[i]]
             m == JsonItems[i].members
         IN /\ (DOMAIN m) \ {"neo"} = ApproachKeys
            /\ ("neo" \in DOMAIN m) <=> (a.neo # 0)
            /\ a.neo # 0 =>
                 /\ DOMAIN m["neo"].members = NeoKeys
                 /\ neos[a.neo].name = None =>
                      m["neo"].members["name"] = [t |-> "string", text |-> ""]

C3_Witness ==
  /\ outFile.fmt = "json"
  /\ Len(results) = 2
  /\ approaches[results[1]].neo # 0
  /\ neos[approaches[results[1]].neo].name = None
  /\ approaches[results[2]].neo = 0

(* ---------------------------- C4 --------------------------------------- *)
\* C4: an extraction whose source lacks a required column or field fails with
\* an error of another kind than the ValueError of an unconvertible value,
\* and returns no records, whatever the number of data rows.
C4_FormatError ==
  /\ (NeosCalled /\ ~NeoHeaderComplete) =>
       (pc = "failed" /\ err \notin {"none", "ValueError"} /\ neos = <<>>)
  /\ (ApproachesCalled /\ ~CadFieldsComplete) =>
       (pc = "failed" /\ err \notin {"none", "ValueError"} /\ approaches = <<>>)

(* ---------------------------- C5 --------------------------------------- *)
FiniteNonNegativeText(text) == text \in DOMAIN DecimalTexts /\ DecimalTexts[text] >= 0
FiniteText(text) == text \in DOMAIN DecimalTexts

\* C5: every constructed CloseApproach has a finite non-negative distance and
\* a finite velocity, and a source row whose distance or velocity is not such
\* a number makes load_approaches fail with ValueError.
C5_ApproachValues ==
  /\ \A a \in 1..Len(approaches) :
       /\ IsFinite(approaches[a].distance) /\ approaches[a].distance.milli >= 0
       /\ IsFinite(approaches[a].velocity)
  /\ (ApproachesCalled /\ CadFieldsComplete /\
        \E i \in 1..Len(cadJson.data) :
          ~FiniteNonNegativeText(CadRaw(i, "dist")) \/ ~FiniteText(CadRaw(i, "v_rel")))
       => (pc = "failed" /\ err = "ValueError" /\ approaches = <<>>)

(* ---------------------------- C6 --------------------------------------- *)
\* C6: writing an empty sequence leaves a parseable empty output in the file:
\* the header row alone for write_to_csv, an empty array for write_to_json.
C6_EmptyOutput ==
  /\ (outFile.fmt = "csv" /\ results = <<>>) => outFile.content = <<fieldnames>>
  /\ (outFile.fmt = "json" /\ results = <<>>) =>
       outFile.content = <<[t |-> "array", items |-> <<>>]>>

C6_Witness ==
  /\ outFile.fmt = "csv"
  /\ results = <<>>
  /\ Len(approaches) = 2

(* ---------------------------- C7 --------------------------------------- *)
\* C7: re-parsing the document write_to_json produced gives, for every linked
\* close approach written, an entry at the same position with the same
\* designation, an equal distance and velocity, and the same datetime string.
C7_RoundTrip ==
  outFile.fmt = "json" =>
    LET parsed == json_load(outFile.content)
    IN /\ Len(parsed) = Len(results)
       /\ \A i \in 1..Len(results) :
            LET a == approaches[results[i]]
            IN a.neo # 0 =>
                 /\ parsed[i]["designation"] = a.designation
                 /\ FloatEq(parsed[i]["distance_au"], a.distance)
                 /\ FloatEq(parsed[i]["velocity_km_s"], a.velocity)
                 /\ parsed[i]["datetime_utc"] = time_str(a)

(* ---------------------------- C8 --------------------------------------- *)
\* C8: a NEO built from a row with an empty name has name None, and its
\* fullname embeds no textual placeholder for the missing name.
C8_EmptyName ==
  NeosLoaded =>
    \A i \in 1..Len(neos) :
      neoCsv.rows[i].name = "" =>
        /\ neos[i].name = None
        /\ \A k \in 1..Len(FullnameParts(neos[i])) : FullnameParts(neos[i])[k] # "None"

(* ---------------------------- C9 --------------------------------------- *)
\* C9 (as stated): an empty diameter gives NaN, a measurement (zero included)
\* gives its value and not NaN, and any other non-empty diameter text that is
\* not a number makes load_neos fail with ValueError.
C9_AsStated ==
  /\ NeosLoaded =>
       \A i \in 1..Len(neos) :
         /\ neoCsv.rows[i].diameter = "" => neos[i].diameter = NaN
         /\ FiniteNonNegativeText(neoCsv.rows[i].diameter) =>
              neos[i].diameter = Fin(DecimalTexts[neoCsv.rows[i].diameter])
  /\ (NeosCalled /\ NeoHeaderComplete /\
        \E i \in 1..Len(neoCsv.rows) :
          neoCsv.rows[i].diameter # "" /\ neoCsv.rows[i].diameter \notin DOMAIN DecimalTexts)
       => (err = "ValueError" /\ neos = <<>> /\ ~NeosLoaded)

FloatSpecials == {"nan", "inf", "-inf"}

\* C9 (amended): as stated, except that the special float literals (nan, inf,
\* -inf) are accepted without error and give NaN or an infinity; every other
\* non-empty text that is not a decimal number raises ValueError.
C9_Diameter ==
  /\ NeosLoaded =>
       \A i \in 1..Len(neos) :
         /\ neoCsv.rows[i].diameter = "" => neos[i].diameter = NaN
         /\ FiniteNonNegativeText(neoCsv.rows[i].diameter) =>
              neos[i].diameter = Fin(DecimalTexts[neoCsv.rows[i].diameter])
         /\ neoCsv.rows[i].diameter \in FloatSpecials => ~IsFinite(neos[i].diameter)
  /\ (NeosCalled /\ NeoHeaderComplete /\
        \E i \in 1..Len(neoCsv.rows) :
          /\ neoCsv.rows[i].diameter # ""
          /\ neoCsv.rows[i].diameter \notin (DOMAIN DecimalTexts) \cup FloatSpecials)
       => (err = "ValueError" /\ neos = <<>> /\ ~NeosLoaded)

C9_Witness ==
  /\ pc = "neos_loaded"
  /\ Len(neos) = 2
  /\ neoCsv.rows[1].diameter = "0" /\ neos[1].diameter = Fin(0)
  /\ neoCsv.rows[2].diameter = "" /\ neos[2].diameter = NaN

(* ---------------------------- C10 -------------------------------------- *)
\* C10: a NEO is hazardous iff the flag field of its row is exactly "Y".
C10_Hazardous ==
  NeosLoaded =>
    \A i \in 1..Len(neos) : neos[i].hazardous <=> (neoCsv.rows[i].pha = "Y")

C10_Witness ==
  /\ pc = "neos_loaded"
  /\ Len(neos) = 2
  /\ neoCsv.rows[1].pha = "Y" /\ neos[1].hazardous
  /\ neoCsv.rows[2].pha = "y" /\ ~neos[2].hazardous
====
